---- MODULE Spec2Model ----
(***************************************************************************)
(* Molho Molho: Turbo Piment -- the Game driver and the Fighter entity of  *)
(* src/main.js (src/unnamed/part_000 is its TypeScript source).            *)
(*                                                                         *)
(* Units.  Time is counted in ticks of 1/TicksPerSec second; a frame       *)
(* timestamp is a number of ticks, so (timestamp - lastTime) / 1000 of the *)
(* source is (timestamp - lastTime) / TicksPerSec seconds here.  Positions *)
(* are in canvas units and velocities in canvas units per second.  Every   *)
(* velocity the program produces is a multiple of TicksPerSec, so every    *)
(* product velocity * dt is a whole number and \div below is exact.        *)
(***************************************************************************)
EXTENDS Integers, FiniteSets, Sequences, TLC

VARIABLES state, keys, lastTime, bg, fighterImg, player, cpu,
          loadPc, rafPending, drawn, stamp, tap

vars == <<state, keys, lastTime, bg, fighterImg, player, cpu,
          loadPc, rafPending, drawn, stamp, tap>>

\* state -- Game.state: "loading", "vs" (ready) or "fight" (active)
\* keys -- Game.keys: key code -> pressed (an absent code reads as false)
\* lastTime -- Game.lastTime, in ticks
\* bg, fighterImg -- the loaded images, Undefined until loaded
\* player, cpu -- the two Fighter objects, Undefined until created
\* loadPc -- where loadAssets stands: "awaitBg", "awaitSprite", "done", "failed"
\* rafPending -- the number of frame callbacks requested and not yet run
\* drawn -- the canvas calls of the latest Game.draw, in the order issued
\* stamp -- the timestamp the browser gave the latest frame callback, 0 if none
\* tap -- history: the latest keydown and its keyup, see TapSpec

(***************************************************************************)
(* Bounds of the model.                                                    *)
(***************************************************************************)
\* ticks per second: dt is a multiple of 1/TicksPerSec s
TicksPerSec == 10
\* largest frame timestamp, in ticks
MaxTime == 8
\* largest gap between two consecutive frame timestamps, in ticks
MaxStep == 2
\* largest timestamp of the first frame callback, in ticks
MaxFirst == 3

\* key codes delivered by the keyboard
Keys == {"KeyA", "KeyD", "KeyW", "Space"}
\* heights of the shared sprite image (assets.pimentRougeIdle0)
SpriteHeights == {32}

(***************************************************************************)
(* Program constants.                                                      *)
(***************************************************************************)
Gravity == 600
GroundLine == 150
SpriteScale == 2
PlayerSpeed == 120
JumpSpeed == 250
CpuSpeed == 80
CpuRange == 40
PlayerStartX == 60
CpuStartX == 220
StartY == 50

\* the value of a field that has not been assigned
Undefined == [undefined |-> TRUE]

Abs(n) == IF n < 0 THEN -n ELSE n

\* no keydown is being followed
NoTap == [stage |-> "none"]

(***************************************************************************)
(* Fighter                                                                 *)
(***************************************************************************)
\* new Fighter(img, x, y)
Fighter(img, x, y) ==
    [img |-> img, vx |-> 0, vy |-> 0, facing |-> 1, onGround |-> FALSE,
     x |-> x, y |-> y]

\* Fighter.update with the ground test y + 2*height > 150
FighterUpdate_StrictGround(f, d) ==
    LET vy1 == f.vy + (Gravity * d) \div TicksPerSec
        x1  == f.x + (f.vx * d) \div TicksPerSec
        y1  == f.y + (vy1 * d) \div TicksPerSec
    IN  IF y1 + f.img.height * SpriteScale > GroundLine
        THEN [f EXCEPT !.x = x1,
                       !.y = GroundLine - f.img.height * SpriteScale,
                       !.vy = 0,
                       !.onGround = TRUE]
        ELSE [f EXCEPT !.x = x1, !.y = y1, !.vy = vy1, !.onGround = FALSE]

\* Fighter.update without this.vy = 0 in the ground branch
FighterUpdate_KeepVy(f, d) ==
    LET vy1 == f.vy + (Gravity * d) \div TicksPerSec
        x1  == f.x + (f.vx * d) \div TicksPerSec
        y1  == f.y + (vy1 * d) \div TicksPerSec
    IN  IF y1 + f.img.height * SpriteScale >= GroundLine
        THEN [f EXCEPT !.x = x1,
                       !.y = GroundLine - f.img.height * SpriteScale,
                       !.vy = vy1,
                       !.onGround = TRUE]
        ELSE [f EXCEPT !.x = x1, !.y = y1, !.vy = vy1, !.onGround = FALSE]

\* Fighter.update with a gravity of 60 for 600
FighterUpdate_WeakGravity(f, d) ==
    LET vy1 == f.vy + ((Gravity \div 10) * d) \div TicksPerSec
        x1  == f.x + (f.vx * d) \div TicksPerSec
        y1  == f.y + (vy1 * d) \div TicksPerSec
    IN  IF y1 + f.img.height * SpriteScale >= GroundLine
        THEN [f EXCEPT !.x = x1,
                       !.y = GroundLine - f.img.height * SpriteScale,
                       !.vy = 0,
                       !.onGround = TRUE]
        ELSE [f EXCEPT !.x = x1, !.y = y1, !.vy = vy1, !.onGround = FALSE]

\* Fighter.update(dt), dt in ticks
FighterUpdate(f, d) ==
    LET vy1 == f.vy + (Gravity * d) \div TicksPerSec
        x1  == f.x + (f.vx * d) \div TicksPerSec
        y1  == f.y + (vy1 * d) \div TicksPerSec
    IN  IF y1 + f.img.height * SpriteScale >= GroundLine
        THEN [f EXCEPT !.x = x1,
                       !.y = GroundLine - f.img.height * SpriteScale,
                       !.vy = 0,
                       !.onGround = TRUE]
        ELSE [f EXCEPT !.x = x1, !.y = y1, !.vy = vy1, !.onGround = FALSE]

(***************************************************************************)
(* Game.update, step by step                                               *)
(***************************************************************************)
\* the player input with the KeyD test before the KeyA test
PlayerInput_RightFirst(p, ks) ==
    LET p0 == [p EXCEPT !.vx = 0]
    IN  IF ks["KeyD"] THEN [p0 EXCEPT !.vx = PlayerSpeed, !.facing = 1]
        ELSE IF ks["KeyA"] THEN [p0 EXCEPT !.vx = -PlayerSpeed, !.facing = -1]
        ELSE p0

\* the player input without this.player.vx = 0
PlayerInput_NoReset(p, ks) ==
    IF ks["KeyA"] THEN [p EXCEPT !.vx = -PlayerSpeed, !.facing = -1]
    ELSE IF ks["KeyD"] THEN [p EXCEPT !.vx = PlayerSpeed, !.facing = 1]
    ELSE p

\* player input: A/D for horizontal movement
PlayerInput(p, ks) ==
    LET p0 == [p EXCEPT !.vx = 0]
    IN  IF ks["KeyA"] THEN [p0 EXCEPT !.vx = -PlayerSpeed, !.facing = -1]
        ELSE IF ks["KeyD"] THEN [p0 EXCEPT !.vx = PlayerSpeed, !.facing = 1]
        ELSE p0

\* the jump rule without the onGround test
PlayerJump_NoGround(p, ks) ==
    IF ks["KeyW"] THEN [p EXCEPT !.vy = -JumpSpeed] ELSE p

\* player input: W for jump
PlayerJump(p, ks) ==
    IF ks["KeyW"] /\ p.onGround THEN [p EXCEPT !.vy = -JumpSpeed] ELSE p

\* the CPU AI with the range test Math.abs(dx) >= 40
CpuAI_InclusiveRange(c, px) ==
    LET dx == px - c.x
        v  == IF Abs(dx) >= CpuRange THEN (IF dx > 0 THEN CpuSpeed ELSE -CpuSpeed)
              ELSE 0
    IN  [c EXCEPT !.vx = v, !.facing = IF v >= 0 THEN 1 ELSE -1]

\* the CPU AI without the range test: it always runs towards the player
CpuAI_NoDeadZone(c, px) ==
    LET dx == px - c.x
        v  == IF dx > 0 THEN CpuSpeed ELSE -CpuSpeed
    IN  [c EXCEPT !.vx = v, !.facing = IF v >= 0 THEN 1 ELSE -1]

\* CPU AI: move towards the player horizontally; px is this.player.x
CpuAI(c, px) ==
    LET dx == px - c.x
        v  == IF Abs(dx) > CpuRange THEN (IF dx > 0 THEN CpuSpeed ELSE -CpuSpeed)
              ELSE 0
    IN  [c EXCEPT !.vx = v, !.facing = IF v >= 0 THEN 1 ELSE -1]

\* random jumps for CPU; rnd is the outcome of Math.random() < 0.01
CpuJump(c, rnd) ==
    IF c.onGround /\ rnd THEN [c EXCEPT !.vy = -JumpSpeed] ELSE c

\* Game.update without the test this.state === 'fight'
GameUpdate_AnyPhase(st, ks, p, c, d, rnd) ==
    LET p1 == FighterUpdate(PlayerJump(PlayerInput(p, ks), ks), d)
        c1 == FighterUpdate(CpuJump(CpuAI(c, p1.x), rnd), d)
    IN  [player |-> p1, cpu |-> c1]

\* Game.update with the CPU AI deciding on the player's x before player.update
GameUpdate_CpuFirst(st, ks, p, c, d, rnd) ==
    IF st = "fight"
    THEN LET p1 == FighterUpdate(PlayerJump(PlayerInput(p, ks), ks), d)
             c1 == FighterUpdate(CpuJump(CpuAI(c, p.x), rnd), d)
         IN  [player |-> p1, cpu |-> c1]
    ELSE [player |-> p, cpu |-> c]

\* Game.update(dt): the new player and cpu
GameUpdate(st, ks, p, c, d, rnd) ==
    IF st = "fight"
    THEN LET p1 == FighterUpdate(PlayerJump(PlayerInput(p, ks), ks), d)
             c1 == FighterUpdate(CpuJump(CpuAI(c, p1.x), rnd), d)
         IN  [player |-> p1, cpu |-> c1]
    ELSE [player |-> p, cpu |-> c]

(***************************************************************************)
(* Initial state: the state left by new Game(), suspended in loadAssets at *)
(* the first await.                                                        *)
(***************************************************************************)
Init ==
    /\ state = "loading"
    /\ keys = [k \in Keys |-> FALSE]
    /\ lastTime = 0
    /\ bg = Undefined
    /\ fighterImg = Undefined
    /\ player = Undefined
    /\ cpu = Undefined
    /\ loadPc = "awaitBg"
    /\ rafPending = 0
    /\ drawn = <<>>
    /\ stamp = 0
    /\ tap = NoTap

(***************************************************************************)
(* Keyboard handlers                                                       *)
(***************************************************************************)
\* the keydown handler without the test this.state === 'vs'
KeyDown_AnyPhase(k) ==
    /\ keys' = [keys EXCEPT ![k] = TRUE]
    /\ state' = IF k = "Space" THEN "fight" ELSE state
    /\ UNCHANGED <<lastTime, bg, fighterImg, player, cpu, loadPc, rafPending, drawn, stamp>>

\* the keydown handler without the test e.code === 'Space'
KeyDown_AnyKey(k) ==
    /\ keys' = [keys EXCEPT ![k] = TRUE]
    /\ state' = IF state = "vs" THEN "fight" ELSE state
    /\ UNCHANGED <<lastTime, bg, fighterImg, player, cpu, loadPc, rafPending, drawn, stamp>>

\* the keydown handler
KeyDown(k) ==
    /\ keys' = [keys EXCEPT ![k] = TRUE]
    /\ state' = IF state = "vs" /\ k = "Space" THEN "fight" ELSE state
    /\ UNCHANGED <<lastTime, bg, fighterImg, player, cpu, loadPc, rafPending, drawn, stamp>>

\* the keyup handler storing true, as the keydown handler does
KeyUp_StoresTrue(k) ==
    /\ keys' = [keys EXCEPT ![k] = TRUE]
    /\ UNCHANGED <<state, lastTime, bg, fighterImg, player, cpu, loadPc,
                   rafPending, drawn, stamp>>

\* the keyup handler
KeyUp(k) ==
    /\ keys' = [keys EXCEPT ![k] = FALSE]
    /\ UNCHANGED <<state, lastTime, bg, fighterImg, player, cpu, loadPc,
                   rafPending, drawn, stamp>>

(***************************************************************************)
(* loadAssets: the two awaits and their continuations                      *)
(***************************************************************************)
\* loadAssets switching to the ready screen as soon as the background has loaded
BgLoaded_ShowsReady ==
    /\ loadPc = "awaitBg"
    /\ bg' = [src |-> "marketSky"]
    /\ loadPc' = "awaitSprite"
    /\ state' = "vs"
    /\ UNCHANGED <<keys, lastTime, fighterImg, player, cpu, rafPending, drawn, stamp>>

\* the background image loads: the first await resumes and the sprite load begins
BgLoaded ==
    /\ loadPc = "awaitBg"
    /\ bg' = [src |-> "marketSky"]
    /\ loadPc' = "awaitSprite"
    /\ UNCHANGED <<state, keys, lastTime, fighterImg, player, cpu, rafPending, drawn, stamp>>

\* the background image fails: loadAssets rejects, nobody observes it
BgFailed ==
    /\ loadPc = "awaitBg"
    /\ loadPc' = "failed"
    /\ UNCHANGED <<state, keys, lastTime, bg, fighterImg, player, cpu,
                   rafPending, drawn, stamp>>

\* loadAssets without this.cpu.facing = -1
SpriteLoaded_CpuFacesRight(h) ==
    /\ loadPc = "awaitSprite"
    /\ fighterImg' = [height |-> h]
    /\ player' = Fighter(fighterImg', PlayerStartX, StartY)
    /\ cpu' = Fighter(fighterImg', CpuStartX, StartY)
    /\ state' = "vs"
    /\ rafPending' = rafPending + 1
    /\ loadPc' = "done"
    /\ UNCHANGED <<keys, lastTime, bg, drawn, stamp>>

\* loadAssets leaving the creation of the fighters for later
SpriteLoaded_NoFighters(h) ==
    /\ loadPc = "awaitSprite"
    /\ fighterImg' = [height |-> h]
    /\ state' = "vs"
    /\ rafPending' = rafPending + 1
    /\ loadPc' = "done"
    /\ UNCHANGED <<keys, lastTime, bg, player, cpu, drawn, stamp>>

\* the sprite image loads: the second await resumes and loadAssets runs to its end
SpriteLoaded(h) ==
    /\ loadPc = "awaitSprite"
    /\ fighterImg' = [height |-> h]
    /\ player' = Fighter(fighterImg', PlayerStartX, StartY)
    /\ cpu' = [Fighter(fighterImg', CpuStartX, StartY) EXCEPT !.facing = -1]
    /\ state' = "vs"
    /\ rafPending' = rafPending + 1
    /\ loadPc' = "done"
    /\ UNCHANGED <<keys, lastTime, bg, drawn, stamp>>

\* a sprite failure that is caught, after which loadAssets still shows the ready screen
SpriteFailed_Swallowed ==
    /\ loadPc = "awaitSprite"
    /\ loadPc' = "failed"
    /\ state' = "vs"
    /\ UNCHANGED <<keys, lastTime, bg, fighterImg, player, cpu, rafPending, drawn, stamp>>

\* the sprite image fails: loadAssets rejects, nobody observes it
SpriteFailed ==
    /\ loadPc = "awaitSprite"
    /\ loadPc' = "failed"
    /\ UNCHANGED <<state, keys, lastTime, bg, fighterImg, player, cpu,
                   rafPending, drawn, stamp>>

(***************************************************************************)
(* The frame callback                                                      *)
(***************************************************************************)
\* the timestamps the next frame callback can receive: later than the
\* previous one; the first one is the time since the page's time origin
Timestamps ==
    IF stamp = 0 THEN 1 .. MaxFirst
    ELSE (stamp + 1) .. (stamp + MaxStep)

\* Fighter.draw(ctx): the drawImage call; flip tells the mirrored branch
FighterDraw(f) ==
    [op |-> "drawImage", img |-> "fighter", x |-> f.x, y |-> f.y,
     flip |-> f.facing < 0]

\* Game.draw with the cpu drawn before the player
Draw_CpuFirst(st, b, p, c) ==
    <<[op |-> "fillRect", style |-> "#000000"]>>
    \o (IF b # Undefined THEN <<[op |-> "drawImage", img |-> "bg"]>> ELSE <<>>)
    \o (IF st = "vs" THEN <<[op |-> "fillText", text |-> "Ready? Press SPACE"]>>
        ELSE <<>>)
    \o (IF st = "fight" THEN <<FighterDraw(c), FighterDraw(p)>> ELSE <<>>)

\* Game.draw(): the canvas calls in the order issued, p and c the fighters
Draw(st, b, p, c) ==
    <<[op |-> "fillRect", style |-> "#000000"]>>
    \o (IF b # Undefined THEN <<[op |-> "drawImage", img |-> "bg"]>> ELSE <<>>)
    \o (IF st = "vs" THEN <<[op |-> "fillText", text |-> "Ready? Press SPACE"]>>
        ELSE <<>>)
    \o (IF st = "fight" THEN <<FighterDraw(p), FighterDraw(c)>> ELSE <<>>)

\* Game.loop requesting the next frame twice
LoopBody_TwoRequests(timestamp, rnd) ==
    /\ rafPending > 0
    /\ stamp' = timestamp
    /\ lastTime' = timestamp
    /\ LET dt == timestamp - lastTime
           r  == GameUpdate(state, keys, player, cpu, dt, rnd)
       IN  player' = r.player /\ cpu' = r.cpu
    /\ drawn' = Draw(state, bg, player', cpu')
    /\ rafPending' = (rafPending - 1) + 2
    /\ UNCHANGED <<state, keys, bg, fighterImg, loadPc>>

\* Game.loop recording the timestamp only in frames of the fight phase
LoopBody_StaleLastTime(timestamp, rnd) ==
    /\ rafPending > 0
    /\ stamp' = timestamp
    /\ lastTime' = IF state = "fight" THEN timestamp ELSE lastTime
    /\ LET dt == timestamp - lastTime
           r  == GameUpdate(state, keys, player, cpu, dt, rnd)
       IN  player' = r.player /\ cpu' = r.cpu
    /\ drawn' = Draw(state, bg, player', cpu')
    /\ rafPending' = (rafPending - 1) + 1
    /\ UNCHANGED <<state, keys, bg, fighterImg, loadPc>>

\* Game.loop(timestamp); rnd is the outcome of the CPU's random trial
LoopBody(timestamp, rnd) ==
    /\ rafPending > 0
    /\ stamp' = timestamp
    /\ lastTime' = timestamp
    /\ LET dt == timestamp - lastTime
           r  == GameUpdate(state, keys, player, cpu, dt, rnd)
       IN  player' = r.player /\ cpu' = r.cpu
    /\ drawn' = Draw(state, bg, player', cpu')
    /\ rafPending' = (rafPending - 1) + 1
    /\ UNCHANGED <<state, keys, bg, fighterImg, loadPc>>

\* a frame callback of the whole game, up to the time bound
Loop(timestamp, rnd) ==
    /\ timestamp <= MaxTime
    /\ LoopBody(timestamp, rnd)

Next ==
    \/ (\E k \in Keys : KeyDown(k)) /\ UNCHANGED tap
    \/ (\E k \in Keys : KeyUp(k)) /\ UNCHANGED tap
    \/ BgLoaded /\ UNCHANGED tap
    \/ BgFailed /\ UNCHANGED tap
    \/ (\E h \in SpriteHeights : SpriteLoaded(h)) /\ UNCHANGED tap
    \/ SpriteFailed /\ UNCHANGED tap
    \/ (\E t \in Timestamps, rnd \in BOOLEAN : Loop(t, rnd)) /\ UNCHANGED tap

Spec == Init /\ [][Next]_vars


(***************************************************************************)
(* Fighter.update on its own: every fighter state of FighterInputs, every  *)
(* dt of 0 .. MaxUnitDt.  The call is made on player; lastTime counts the  *)
(* ticks handed to update, so that lastTime' - lastTime is the dt of the   *)
(* call, as it is in Loop.                                                 *)
(***************************************************************************)
\* largest dt handed to Fighter.update by FighterSpec, in ticks
MaxUnitDt == 3
\* largest total of the dt's of one FighterSpec run, in ticks
MaxUnitTime == 4

UnitHeights == {16, 32, 50}
UnitYs == {-30, 20, 44, 50, 80, 86, 100, 130}
UnitVxs == {-PlayerSpeed, 0, CpuSpeed}
UnitVys == {-JumpSpeed, -10, 0, 60, Gravity}

FighterInputs ==
    { [img |-> [height |-> h], vx |-> vx, vy |-> vy, facing |-> 1,
       onGround |-> g, x |-> PlayerStartX, y |-> y] :
        h \in UnitHeights, vx \in UnitVxs, vy \in UnitVys,
        g \in BOOLEAN, y \in UnitYs }

FighterInit ==
    /\ state = "fight"
    /\ keys = [k \in Keys |-> FALSE]
    /\ lastTime = 0
    /\ bg = [src |-> "marketSky"]
    /\ player \in FighterInputs
    /\ fighterImg = player.img
    /\ cpu = [Fighter(fighterImg, CpuStartX, StartY) EXCEPT !.facing = -1]
    /\ loadPc = "done"
    /\ rafPending = 0
    /\ drawn = <<>>
    /\ stamp = 0
    /\ tap = NoTap

\* one call player.update(d)
UpdateCall(d) ==
    /\ lastTime + d <= MaxUnitTime
    /\ lastTime' = lastTime + d
    /\ player' = FighterUpdate(player, d)
    /\ UNCHANGED <<state, keys, bg, fighterImg, cpu, loadPc, rafPending,
                   drawn, stamp, tap>>

FighterNext == \E d \in 0 .. MaxUnitDt : UpdateCall(d)

FighterSpec == FighterInit /\ [][FighterNext]_vars

(***************************************************************************)
(* Game.update on its own: frames of the fight phase from every placement  *)
(* of the two fighters in UpdatePlayerXs x UpdateCpuXs, grounded, under    *)
(* every combination of the movement and jump keys.                        *)
(***************************************************************************)
\* the timestamp of the frame before the first one of UpdateSpec, in ticks
UpdateStart == 6

UpdatePlayerXs == {-41, -40, -39, 0, 39, 40, 41, 52, 60}
UpdateCpuXs == {0, 220}

UpdateInit ==
    /\ state = "fight"
    /\ keys \in {ks \in [Keys -> BOOLEAN] : ks["Space"]}
    /\ lastTime = UpdateStart
    /\ bg = [src |-> "marketSky"]
    /\ fighterImg \in {[height |-> h] : h \in SpriteHeights}
    /\ \E px \in UpdatePlayerXs, pf \in {-1, 1} :
          player = FighterUpdate(
                     [Fighter(fighterImg, px, StartY) EXCEPT !.facing = pf],
                     UpdateStart)
    /\ \E cx \in UpdateCpuXs, cf \in {-1, 1} :
          cpu = FighterUpdate(
                  [Fighter(fighterImg, cx, StartY) EXCEPT !.facing = cf],
                  UpdateStart)
    /\ loadPc = "done"
    /\ rafPending = 1
    /\ drawn = Draw("fight", bg, player, cpu)
    /\ stamp = UpdateStart
    /\ tap = NoTap

UpdateNext ==
    (\E t \in Timestamps, rnd \in BOOLEAN : Loop(t, rnd)) /\ UNCHANGED tap

UpdateSpec == UpdateInit /\ [][UpdateNext]_vars


(***************************************************************************)
(* One second without keys: the fight phase from every airborne player     *)
(* that free fall from the start position or a jump from the ground can    *)
(* produce in up to LandPrefix frames, with no key held, for the           *)
(* TicksPerSec ticks after LandStart.                                      *)
(***************************************************************************)
\* the timestamp of the frame before the first one of LandingSpec, in ticks
LandStart == 4
\* the largest number of frames the player has been in the air at the start
LandPrefix == 4

LandHeights == {1, 16, 32}

\* S and what up to n calls of Fighter.update make of it
RECURSIVE Flights(_, _)
Flights(S, n) ==
    IF n = 0 THEN S
    ELSE Flights(S \cup {FighterUpdate(p, d) : p \in S, d \in 1 .. MaxStep}, n - 1)

\* the player standing on the ground, after the jump rule has fired
Jumping(img) ==
    [Fighter(img, PlayerStartX, GroundLine - img.height * SpriteScale)
        EXCEPT !.vy = -JumpSpeed, !.onGround = TRUE]

\* the players in the air between two frames
AirbornePlayers(img) ==
    {p \in Flights({Fighter(img, PlayerStartX, StartY), Jumping(img)}, LandPrefix) :
        ~p.onGround /\ p.y + p.img.height * SpriteScale < GroundLine}

LandingInit ==
    /\ state = "fight"
    /\ keys = [k \in Keys |-> FALSE]
    /\ lastTime = LandStart
    /\ bg = [src |-> "marketSky"]
    /\ fighterImg \in {[height |-> h] : h \in LandHeights}
    /\ player \in AirbornePlayers(fighterImg)
    /\ cpu = [Fighter(fighterImg, CpuStartX, StartY) EXCEPT !.facing = -1]
    /\ loadPc = "done"
    /\ rafPending = 1
    /\ drawn = Draw("fight", bg, player, cpu)
    /\ stamp = LandStart
    /\ tap = NoTap

LandingNext ==
    (\E t \in Timestamps, rnd \in BOOLEAN :
        t <= LandStart + TicksPerSec /\ LoopBody(t, rnd)) /\ UNCHANGED tap

LandingSpec == LandingInit /\ [][LandingNext]_vars

(***************************************************************************)
(* The whole game with the history of the latest keydown: tap remembers    *)
(* the program state before a keydown (stage "down") and keeps it when the *)
(* next event is the keyup of the same key (stage "up"); every other event *)
(* forgets it, so in stage "up" no frame has run since before the keydown. *)
(***************************************************************************)
\* largest frame timestamp of TapSpec, in ticks
TapMaxTime == 5

\* everything the program holds
Snapshot ==
    <<state, keys, lastTime, bg, fighterImg, player, cpu, loadPc, rafPending,
      drawn, stamp>>

TapKeyDown(k) ==
    /\ KeyDown(k)
    /\ tap' = [stage |-> "down", key |-> k, before |-> Snapshot,
               state |-> state, keys |-> keys, player |-> player, cpu |-> cpu]

TapKeyUp(k) ==
    /\ KeyUp(k)
    /\ tap' = IF tap.stage = "down" /\ tap.key = k
              THEN [tap EXCEPT !.stage = "up"]
              ELSE NoTap

TapNext ==
    \/ \E k \in Keys : TapKeyDown(k)
    \/ \E k \in Keys : TapKeyUp(k)
    \/ BgLoaded /\ tap' = NoTap
    \/ BgFailed /\ tap' = NoTap
    \/ (\E h \in SpriteHeights : SpriteLoaded(h)) /\ tap' = NoTap
    \/ SpriteFailed /\ tap' = NoTap
    \/ (\E t \in Timestamps, rnd \in BOOLEAN :
           t <= TapMaxTime /\ LoopBody(t, rnd)) /\ tap' = NoTap

TapSpec == Init /\ [][TapNext]_vars

(***************************************************************************)
(* The chase: the fight phase with neither KeyA nor KeyD held, the player  *)
(* grounded at its start x and the opponent at every x of ChaseCpuXs,      *)
(* under frames of every dt from one tick to one second; KeyW and Space    *)
(* may be pressed and released at any time.  The frame callback is         *)
(* requested again by every frame, so frames keep coming (ChaseFair).      *)
(***************************************************************************)
\* the timestamp of the frame before the first one of ChaseSpec, in ticks
ChaseStart == 3
\* the ticks of fight that ChaseSpec follows
ChaseTicks == 16

ChaseCpuXs == {-100, 19, 20, 60, 101, 220}
ChaseKeys == {"KeyW", "Space"}

ChaseInit ==
    /\ state = "fight"
    /\ keys \in {ks \in [Keys -> BOOLEAN] :
                    ks["Space"] /\ ~ks["KeyA"] /\ ~ks["KeyD"]}
    /\ lastTime = ChaseStart
    /\ bg = [src |-> "marketSky"]
    /\ fighterImg \in {[height |-> h] : h \in SpriteHeights}
    /\ player = FighterUpdate(Fighter(fighterImg, PlayerStartX, StartY),
                              ChaseStart)
    /\ \E cx \in ChaseCpuXs :
          cpu = FighterUpdate(
                  [Fighter(fighterImg, cx, StartY) EXCEPT !.facing = -1],
                  ChaseStart)
    /\ loadPc = "done"
    /\ rafPending = 1
    /\ drawn = Draw("fight", bg, player, cpu)
    /\ stamp = ChaseStart
    /\ tap = NoTap

ChaseFrame ==
    \E d \in 1 .. TicksPerSec, rnd \in BOOLEAN :
        /\ stamp + d <= ChaseStart + ChaseTicks
        /\ LoopBody(stamp + d, rnd)
        /\ UNCHANGED tap

ChaseNext ==
    \/ (\E k \in ChaseKeys : KeyDown(k)) /\ UNCHANGED tap
    \/ (\E k \in ChaseKeys : KeyUp(k)) /\ UNCHANGED tap
    \/ ChaseFrame

ChaseSpec == ChaseInit /\ [][ChaseNext]_vars

\* a frame callback, seen through its timestamp alone: in ChaseSpec the
\* steps that change stamp are those of ChaseFrame, and one is possible
\* exactly while stamp is below ChaseStart + ChaseTicks
ChaseTick == stamp' \in (stamp + 1) .. (ChaseStart + ChaseTicks)

ChaseFair == ChaseSpec /\ WF_stamp(ChaseTick)

(***************************************************************************)
(* Load completions are fair: the browser ends every image load it has     *)
(* started with onload or with onerror.                                    *)
(***************************************************************************)
FairSpec ==
    /\ Spec
    /\ WF_vars((BgLoaded \/ BgFailed) /\ UNCHANGED tap)
    /\ WF_vars(((\E h \in SpriteHeights : SpriteLoaded(h)) \/ SpriteFailed)
               /\ UNCHANGED tap)

(***************************************************************************)
(* Vocabulary of the properties                                            *)
(***************************************************************************)
\* a step that is a frame callback: no other handler assigns lastTime
FrameStep == lastTime' # lastTime
\* the dt of that frame callback, in ticks
FrameDt == lastTime' - lastTime
\* the y of the fighter's bottom edge
Bottom(f) == f.y + f.img.height * SpriteScale
\* the fighters as loadAssets creates them
FreshPlayer == Fighter(fighterImg, PlayerStartX, StartY)
FreshCpu == [Fighter(fighterImg, CpuStartX, StartY) EXCEPT !.facing = -1]

(***************************************************************************)
(* C1  Phase monotonicity                                                  *)
(***************************************************************************)
\* C1: the phase only ever changes loading -> vs (ready) and vs -> fight
\* (active): never backward, never loading -> fight.
C1_PhaseMonotonic ==
    [][state' # state =>
          \/ state = "loading" /\ state' = "vs"
          \/ state = "vs" /\ state' = "fight"]_vars

C1_Witness == state = "fight" /\ lastTime > 0 /\ ~keys["Space"]

(***************************************************************************)
(* C2  Ground clamp                                                        *)
(***************************************************************************)
\* C2: after any Fighter.update(dt), dt >= 0, the bottom edge is at or above
\* the ground line, and it is on the ground line iff onGround is true.
C2_GroundClamp ==
    [][/\ Bottom(player') <= GroundLine
       /\ (Bottom(player') = GroundLine <=> player'.onGround)]_vars

\* update has brought a fighter from the air exactly onto the ground line
C2_Witness ==
    /\ lastTime > 0
    /\ player.onGround
    /\ Bottom(player) = GroundLine
    /\ player.vy = 0

(***************************************************************************)
(* C3  Input precedence                                                    *)
(***************************************************************************)
\* C3 as stated: with KeyA and KeyD both held during a fight-phase update the
\* player ends with vx = +120 and faces right.
C3_RightWins ==
    [][FrameStep /\ state = "fight" /\ keys["KeyA"] /\ keys["KeyD"] =>
          player'.vx = PlayerSpeed /\ player'.facing = 1]_vars

\* C3 amended: with KeyA and KeyD both held during a fight-phase update the
\* player ends with vx = -120 and faces left (the left check comes first).
C3_LeftWins ==
    [][FrameStep /\ state = "fight" /\ keys["KeyA"] /\ keys["KeyD"] =>
          /\ player'.vx = -PlayerSpeed
          /\ player'.facing = -1
          /\ player'.x = player.x - (PlayerSpeed * FrameDt) \div TicksPerSec]_vars

C3_Witness ==
    /\ state = "fight"
    /\ keys["KeyA"] /\ keys["KeyD"]
    /\ player.vx = -PlayerSpeed
    /\ player.x < PlayerStartX

(***************************************************************************)
(* C4  The confirm key                                                     *)
(***************************************************************************)
\* C4 as stated: the phase becomes fight only from vs, only in a Space
\* keydown, and only when Space was not recorded as pressed before it.
C4_EdgeOnly ==
    [][state # "fight" /\ state' = "fight" =>
          /\ state = "vs"
          /\ ~keys["Space"]
          /\ keys' = [keys EXCEPT !["Space"] = TRUE]
          /\ UNCHANGED <<lastTime, player, cpu, loadPc, rafPending, drawn, stamp>>]_vars

\* C4 amended: the phase becomes fight only from vs and only in a Space
\* keydown, whether or not Space was already recorded as pressed; leaving
\* loading always leads to vs, also with Space held; no other key, no keyup
\* and no frame callback makes the phase fight.
C4_ConfirmKeydown ==
    /\ [][state # "fight" /\ state' = "fight" =>
             /\ state = "vs"
             /\ keys' = [keys EXCEPT !["Space"] = TRUE]
             /\ UNCHANGED <<lastTime, player, cpu, loadPc, rafPending, drawn, stamp>>]_vars
    /\ [][state = "loading" /\ keys["Space"] => state' \in {"loading", "vs"}]_vars

C4_Witness == state = "fight" /\ lastTime = 0 /\ keys["Space"]

(***************************************************************************)
(* C5  Gravity                                                             *)
(***************************************************************************)
\* C5: after Fighter.update(dt), dt >= 0, vy is the previous vy + 600*dt,
\* unless the integrated position reaches or passes the ground line, and
\* then vy is exactly 0.
C5_Gravity ==
    [][LET vy1 == player.vy + (Gravity * FrameDt) \div TicksPerSec
           y1  == player.y + (vy1 * FrameDt) \div TicksPerSec
       IN  IF y1 + player.img.height * SpriteScale >= GroundLine
           THEN player'.vy = 0
           ELSE player'.vy = vy1]_vars

\* both outcomes: a fighter still in the air with gravity added ...
C5_Witness ==
    /\ lastTime > 0
    /\ ~player.onGround
    /\ player.vy = -JumpSpeed + (Gravity * lastTime) \div TicksPerSec

(***************************************************************************)
(* C6  Jump gating                                                         *)
(***************************************************************************)
\* C6: a fight-phase frame with KeyW held and the player not on the ground
\* gives the player exactly what the frame gives with KeyW not held; a
\* freshly created player does not jump on its first fight-phase frame.
C6_JumpGating ==
    [][FrameStep /\ state = "fight" /\ keys["KeyW"] /\ ~player.onGround =>
          LET vy1 == player.vy + (Gravity * FrameDt) \div TicksPerSec
              y1  == player.y + (vy1 * FrameDt) \div TicksPerSec
          IN  /\ player' = GameUpdate(state, [keys EXCEPT !["KeyW"] = FALSE],
                                      player, cpu, FrameDt, FALSE).player
              /\ player'.vy = IF y1 + player.img.height * SpriteScale >= GroundLine
                              THEN 0 ELSE vy1
              /\ player = FreshPlayer => player'.vy >= 0]_vars

\* KeyW is held, the player is in the air and falling after a fight frame
C6_Witness ==
    /\ state = "fight"
    /\ keys["KeyW"]
    /\ ~player.onGround
    /\ player.vy = (Gravity * lastTime) \div TicksPerSec
    /\ lastTime > 0

(***************************************************************************)
(* C7  Opponent decision rule                                              *)
(***************************************************************************)
\* C7: in every fight-phase update, with dx = player.x - cpu.x taken after
\* the player's move, cpu.vx is +80 when dx > 40, -80 when dx < -40 and 0
\* when |dx| <= 40; cpu.facing is left exactly when cpu.vx is -80.
C7_OpponentRule ==
    [][FrameStep /\ state = "fight" =>
          LET dx == player'.x - cpu.x
          IN  /\ dx > CpuRange => cpu'.vx = CpuSpeed
              /\ dx < -CpuRange => cpu'.vx = -CpuSpeed
              /\ (dx <= CpuRange /\ dx >= -CpuRange) => cpu'.vx = 0
              /\ cpu'.facing = IF cpu'.vx = -CpuSpeed THEN -1 ELSE 1]_vars

\* the opponent exactly at the threshold: idle and facing right
C7_Witness ==
    /\ state = "fight"
    /\ lastTime > UpdateStart
    /\ Abs(player.x - cpu.x) = CpuRange
    /\ cpu.vx = 0
    /\ cpu.facing = 1

(***************************************************************************)
(* C8  No simulation outside fight                                         *)
(***************************************************************************)
\* C8: a frame callback run while the phase is loading or vs changes
\* nothing but lastTime, whatever keys are held and whatever dt is.
C8_UpdateOnlyInFight ==
    [][FrameStep /\ state # "fight" =>
          UNCHANGED <<state, keys, bg, fighterImg, player, cpu, loadPc>>]_vars

\* frames have run in vs with movement and jump keys held
C8_Witness ==
    /\ state = "vs"
    /\ lastTime > MaxFirst
    /\ keys["KeyD"] /\ keys["KeyW"]
    /\ player = FreshPlayer /\ cpu = FreshCpu

(***************************************************************************)
(* C9  loading -> vs                                                       *)
(***************************************************************************)
\* C9: the phase leaves loading exactly once, in the step that completes the
\* sprite load, which is begun only after the background has loaded; that step
\* creates the player at (60, 50) facing right and the cpu at (220, 50) facing
\* left; and every load that does not fail leads to vs.
C9_LoadingToReady ==
    /\ [](loadPc \in {"awaitSprite", "done"} => bg # Undefined)
    /\ [](state # "loading" <=> loadPc = "done")
    /\ [](loadPc = "done" => fighterImg # Undefined /\ bg # Undefined)
    /\ [][state = "loading" /\ state' # "loading" =>
             /\ state' = "vs"
             /\ loadPc = "awaitSprite"
             /\ player'.x = PlayerStartX /\ player'.y = StartY
             /\ player'.facing = 1
             /\ cpu'.x = CpuStartX /\ cpu'.y = StartY
             /\ cpu'.facing = -1
             /\ player' = FreshPlayer' /\ cpu' = FreshCpu']_vars
    /\ [][state' = "vs" => state \in {"loading", "vs"}]_vars
    /\ (loadPc = "awaitBg") ~> (loadPc = "failed" \/ state = "vs")

C9_Witness ==
    /\ state = "vs"
    /\ loadPc = "done"
    /\ player = FreshPlayer /\ cpu = FreshCpu
    /\ lastTime = 0

(***************************************************************************)
(* C10  Asset-load failure                                                 *)
(***************************************************************************)
\* C10: once a load has failed the phase is loading for ever, no fighter is
\* created, no frame callback is requested or run, whatever keys arrive.
C10_LoadFailure ==
    /\ [](loadPc = "failed" =>
             /\ state = "loading"
             /\ player = Undefined /\ cpu = Undefined
             /\ rafPending = 0
             /\ lastTime = 0)
    /\ [][loadPc = "failed" => loadPc' = "failed"]_vars

\* the sprite load failed after the background loaded, and Space was pressed
C10_Witness ==
    /\ loadPc = "failed"
    /\ bg # Undefined
    /\ keys["Space"]


(***************************************************************************)
(* C11  Frame scheduling                                                   *)
(***************************************************************************)
\* a step that is a frame callback, told by the browser's timestamp
FrameCb == stamp' # stamp

\* C11: at most one frame callback is pending; one is pending exactly from the
\* moment loading has succeeded, for ever; every callback takes its dt from
\* the previous callback's timestamp, draws the fighters where its update has
\* put them, and requests exactly one next callback.
C11_FrameScheduling ==
    /\ [](rafPending \in {0, 1})
    /\ [](rafPending = 1 <=> loadPc = "done")
    /\ [](lastTime = stamp)
    /\ [][FrameCb =>
             /\ rafPending = 1 /\ rafPending' = 1
             /\ lastTime' - lastTime = stamp' - stamp
             /\ state = "fight" =>
                   /\ Len(drawn') = 4
                   /\ drawn'[3].x = player'.x /\ drawn'[3].y = player'.y
                   /\ drawn'[4].x = cpu'.x /\ drawn'[4].y = cpu'.y]_vars
    /\ [][~FrameCb => rafPending' >= rafPending /\ lastTime' = lastTime]_vars

\* several frames have run, the latest one in fight, and one is pending
C11_Witness ==
    /\ state = "fight"
    /\ rafPending = 1
    /\ stamp > MaxFirst + MaxStep
    /\ Len(drawn) = 4
    /\ drawn[3].x = player.x /\ player.x # PlayerStartX

(***************************************************************************)
(* C12  Rendering order                                                    *)
(***************************************************************************)
\* C12: every frame issues, in this order, the clear to black, the background
\* if loaded, then the prompt iff the phase is vs and the player followed by
\* the cpu iff the phase is fight, the fighters as the frame's update left
\* them; prompt and fighters are never drawn in the same frame.
C12_RenderOrder ==
    /\ [][FrameCb =>
             LET n    == IF bg # Undefined THEN 2 ELSE 1
                 rest == SubSeq(drawn', n + 1, Len(drawn'))
             IN  /\ Len(drawn') >= n
                 /\ drawn'[1] = [op |-> "fillRect", style |-> "#000000"]
                 /\ bg # Undefined => drawn'[2] = [op |-> "drawImage", img |-> "bg"]
                 /\ state = "loading" => rest = <<>>
                 /\ state = "vs" =>
                       rest = <<[op |-> "fillText", text |-> "Ready? Press SPACE"]>>
                 /\ state = "fight" =>
                       rest = <<[op |-> "drawImage", img |-> "fighter",
                                 x |-> player'.x, y |-> player'.y,
                                 flip |-> player'.facing = -1],
                                [op |-> "drawImage", img |-> "fighter",
                                 x |-> cpu'.x, y |-> cpu'.y,
                                 flip |-> cpu'.facing = -1]>>]_vars
    /\ [](\A i, j \in 1 .. Len(drawn) :
             ~(/\ drawn[i].op = "fillText"
               /\ drawn[j].op = "drawImage" /\ drawn[j].img = "fighter"))

\* a fight frame has drawn the player, mirrored, left of the cpu
C12_Witness ==
    /\ state = "fight"
    /\ Len(drawn) = 4
    /\ drawn[3].flip /\ ~drawn[4].flip
    /\ drawn[3].x < drawn[4].x
    /\ drawn[3].y # drawn[4].y


(***************************************************************************)
(* C13  Landing within one second                                          *)
(***************************************************************************)
\* C13: from a fight-phase state with the player in the air, after frames
\* totalling 1.0 s with no key held the player stands on the ground line with
\* vy = 0 and onGround true.
C13_Landing ==
    stamp = LandStart + TicksPerSec =>
        /\ player.y = GroundLine - player.img.height * SpriteScale
        /\ player.vy = 0
        /\ player.onGround

\* the second has passed and the player, who started in the air, has landed
C13_Witness ==
    /\ stamp = LandStart + TicksPerSec
    /\ player.onGround
    /\ player.img.height = 1


(***************************************************************************)
(* C14  Player horizontal mapping                                          *)
(***************************************************************************)
\* C14: in every fight-phase update, with neither KeyA nor KeyD held the
\* player is integrated with vx = 0 and keeps its facing; with only KeyD held
\* vx is +120 and the player faces right (a dt of 0.1 s adds exactly 12 to
\* x); with only KeyA held vx is -120 and the player faces left.
C14_HorizontalMapping ==
    [][FrameCb /\ state = "fight" =>
          LET a == keys["KeyA"]
              d == keys["KeyD"]
              n == stamp' - lastTime
          IN  /\ (~a /\ ~d) =>
                    /\ player'.vx = 0
                    /\ player'.x = player.x
                    /\ player'.facing = player.facing
              /\ (~a /\ d) =>
                    /\ player'.vx = 120
                    /\ player'.facing = 1
                    /\ player'.x = player.x + 12 * n
              /\ (a /\ ~d) =>
                    /\ player'.vx = -120
                    /\ player'.facing = -1
                    /\ player'.x = player.x - 12 * n]_vars

\* the player has moved left, the keys were released, and a frame has run
C14_Witness ==
    /\ state = "fight"
    /\ ~keys["KeyA"] /\ ~keys["KeyD"]
    /\ player.vx = 0
    /\ player.x < PlayerStartX
    /\ player.facing = -1
    /\ drawn[3].x = player.x


(***************************************************************************)
(* C15  The fighters at the moment the phase becomes ready                 *)
(***************************************************************************)
\* C15 as stated: when the phase becomes vs after both loads, neither the
\* player nor the cpu has been created.
C15_NoFightersAtReady ==
    [][state = "loading" /\ state' = "vs" =>
          player' = Undefined /\ cpu' = Undefined]_vars

\* C15 amended: the step that makes the phase vs is the step that creates
\* both fighters, so they exist from the first moment of vs; frames run in vs
\* draw the prompt and no fighter.
C15_FightersAtReady ==
    /\ [][state = "loading" /\ state' = "vs" =>
             /\ player = Undefined /\ cpu = Undefined
             /\ player' # Undefined /\ cpu' # Undefined
             /\ player'.img = fighterImg' /\ cpu'.img = fighterImg']_vars
    /\ [][FrameCb /\ state = "vs" =>
             \A i \in 1 .. Len(drawn') :
                 drawn'[i].op = "drawImage" => drawn'[i].img = "bg"]_vars

\* the ready screen has been drawn while both fighters exist
C15_Witness ==
    /\ state = "vs"
    /\ player # Undefined /\ cpu # Undefined
    /\ stamp > 0
    /\ Len(drawn) = 3


(***************************************************************************)
(* C16  Step ordering inside a fight frame                                 *)
(***************************************************************************)
\* C16: the cpu decides on dx = player.x - cpu.x with player.x as the
\* player's own integration of the same frame has left it, and the cpu is
\* integrated last, with the velocity just decided.
C16_StepOrdering ==
    [][FrameCb /\ state = "fight" =>
          LET n   == stamp' - lastTime
              pvx == IF keys["KeyA"] THEN -PlayerSpeed
                     ELSE IF keys["KeyD"] THEN PlayerSpeed ELSE 0
              px1 == player.x + (pvx * n) \div TicksPerSec
              dx  == px1 - cpu.x
              v   == IF dx > CpuRange THEN CpuSpeed
                     ELSE IF dx < -CpuRange THEN -CpuSpeed ELSE 0
          IN  /\ player'.x = px1
              /\ cpu'.vx = v
              /\ cpu'.x = cpu.x + (v * n) \div TicksPerSec]_vars

\* the player has stepped into range in the frame in which the cpu stayed
\* idle: from the player's x before the frame the cpu would have moved
C16_Witness ==
    /\ state = "fight"
    /\ stamp > UpdateStart
    /\ player.vx = -PlayerSpeed
    /\ cpu.vx = 0
    /\ Abs(player.x - cpu.x) <= CpuRange
    /\ player.x + (PlayerSpeed * (stamp - UpdateStart)) \div TicksPerSec - cpu.x
          > CpuRange


(***************************************************************************)
(* C17  Fighters exist whenever they are used                              *)
(***************************************************************************)
\* C17: whenever the phase is vs or fight, and whenever a frame callback is
\* pending, the player and the cpu exist and share the loaded sprite image.
C17_FightersExist ==
    (state \in {"vs", "fight"} \/ rafPending > 0) =>
        /\ fighterImg # Undefined
        /\ bg # Undefined
        /\ player # Undefined /\ cpu # Undefined
        /\ player.img = fighterImg /\ cpu.img = fighterImg

\* fight frames have updated and drawn both fighters
C17_Witness ==
    /\ state = "fight"
    /\ stamp > MaxFirst
    /\ player.onGround /\ cpu.onGround
    /\ player.img = cpu.img
    /\ Len(drawn) = 4


(***************************************************************************)
(* C18  Level-sampled movement keys, latched confirm key                   *)
(***************************************************************************)
MoveKeys == {"KeyA", "KeyD", "KeyW"}

\* a keydown of k directly followed by its keyup, no frame in between
Tapped(k) == tap.stage = "up" /\ tap.key = k

\* C18 as stated: after a keydown and a keyup of KeyA, KeyD or KeyW between
\* two frames, the next fight frame gives both fighters what it would have
\* given without the two events; after a keydown and a keyup of Space between
\* two frames in vs the phase is fight.
C18_TapInvisible ==
    /\ \A k \in MoveKeys :
          Tapped(k) /\ state = "fight" =>
              \A n \in 1 .. MaxStep, rnd \in BOOLEAN :
                  GameUpdate(state, keys, player, cpu, n, rnd)
                    = GameUpdate(tap.state, tap.keys, tap.player, tap.cpu, n, rnd)
    /\ Tapped("Space") /\ tap.state = "vs" => state = "fight"

\* C18 amended: a keydown and a keyup, between two frames, of KeyA, KeyD or
\* KeyW that was not recorded as pressed before the keydown leave the whole
\* program state as it was, so no later frame can tell; a keydown and a keyup
\* of Space between two frames in vs leave the phase fight.
C18_LevelSampled ==
    /\ \A k \in MoveKeys :
          Tapped(k) /\ ~tap.keys[k] => Snapshot = tap.before
    /\ Tapped("Space") /\ tap.state = "vs" =>
          /\ state = "fight"
          /\ player = tap.player /\ cpu = tap.cpu

\* in fight, after frames, KeyD has been pressed and released between two
\* frames while KeyA stays held
C18_Witness ==
    /\ Tapped("KeyD")
    /\ ~tap.keys["KeyD"]
    /\ state = "fight"
    /\ stamp > MaxFirst
    /\ player.onGround


(***************************************************************************)
(* C19  Opponent convergence without overshoot                             *)
(***************************************************************************)
\* the opponent's offset, as Game.update computes it
Dx == player.x - cpu.x

\* C19: in fight with neither KeyA nor KeyD held and 0 < dt <= 1 s in every
\* frame, the player's x is constant, no frame takes the opponent's offset
\* from beyond the threshold on one side to beyond it on the other side,
\* the offset is eventually within the threshold, and from then on every
\* frame leaves the opponent's horizontal velocity 0 and the offset as it is.
C19_Convergence ==
    /\ [][player'.x = player.x]_vars
    /\ [][/\ ~(Dx < -CpuRange /\ Dx' > CpuRange)
          /\ ~(Dx > CpuRange /\ Dx' < -CpuRange)]_vars
    /\ <>(Abs(Dx) <= CpuRange)
    /\ [][Abs(Dx) <= CpuRange =>
            /\ Abs(Dx') <= CpuRange
            /\ FrameCb => cpu'.vx = 0 /\ Dx' = Dx]_vars

\* the opponent started at its start x, 160 px away, has run up to the
\* player and then stood still for a frame
C19_Witness ==
    /\ Abs(Dx) <= CpuRange
    /\ cpu.x = PlayerStartX + CpuRange
    /\ cpu.vx = 0
    /\ stamp > ChaseStart


(***************************************************************************)
(* C20  The first frame's dt                                               *)
(***************************************************************************)
\* the frame callback integrates both fighters over d ticks
Integrates(d) ==
    \E rnd \in BOOLEAN :
        LET r == GameUpdate("fight", keys, player, cpu, d, rnd)
        IN  player' = r.player /\ cpu' = r.cpu

\* C20: the first frame callback (stamp = 0 before it) integrates the
\* fighters, over its whole timestamp, only when the phase is already fight,
\* and the phase is fight before the first frame only by a Space keydown
\* handled in vs, that is after loading has completed; a first frame in vs
\* moves no fighter and records its timestamp; every later frame in fight
\* integrates the fighters over the difference between its timestamp and the
\* previous frame's.
C20_FirstFrameDt ==
    /\ [][FrameCb /\ stamp = 0 =>
             IF state = "fight"
             THEN Integrates(stamp')
             ELSE /\ state = "vs"
                  /\ player' = player /\ cpu' = cpu
                  /\ lastTime' = stamp']_vars
    /\ [][stamp = 0 /\ state # "fight" /\ state' = "fight" =>
             /\ state = "vs" /\ loadPc = "done"
             /\ ~FrameCb
             /\ keys'["Space"]]_vars
    /\ [][FrameCb /\ stamp > 0 /\ state = "fight" =>
             /\ stamp' > stamp
             /\ Integrates(stamp' - stamp)]_vars

\* Space was pressed before the first frame, which came one tick after the
\* time origin and has let both fighters fall for that tick
C20_Witness ==
    /\ state = "fight"
    /\ stamp = 1
    /\ player.y > StartY
    /\ cpu.y > StartY

====
